---- MODULE Spec2Model ----
(***************************************************************************)
(* A model of link_categorizer.py:                                         *)
(*   - process_links / process_link: the pool of worker tasks, the two     *)
(*     cache mappings, the dispatcher's poll loop and the cache files;     *)
(*   - simplify_keywords: the merge pass over all keyword slots and the    *)
(*     final reduction to a list of distinct strings.                      *)
(* Cache values are compared up to JSON's identification of tuples and     *)
(* arrays: [("ERROR", 0.0)] and its persisted form [["ERROR", 0.0]] are    *)
(* the same value ERROR_KEYWORDS here.                                     *)
(***************************************************************************)
EXTENDS Integers, Sequences, FiniteSets, TLC

(* ------------------------------ bounds -------------------------------- *)

\* number of entries of parsed_links (label -> URL)
NumLabels == 2
\* Pool(12) of process_links is scaled down: the model runs with a pool of every
\* size in 1..MaxPool, so that NumLabels tasks both reach the ceiling and overlap
MaxPool == 2

Labels == 1..NumLabels
Links == {"u1", "u2"}

(* --------------------------- cache values ----------------------------- *)

\* "link not in mapping"
Absent == "absent"
\* contents[link] = '' written by the dispatcher for a failed task
EMPTY_CONTENT == ""
\* the text get_content returns for a link
TextOf(link) == "text"
\* keywords[link] = [('ERROR', 0.0)] written by the dispatcher for a failed task
ERROR_KEYWORDS == "[(ERROR, 0.0)]"
\* the keyword list get_keywords returns for a content
KeywordsOf(content) == IF content = EMPTY_CONTENT THEN "kw()" ELSE "kw(text)"

EmptyMap == [l \in Links |-> Absent]
NoFile == [exists |-> FALSE, map |-> EmptyMap]
FileOf(m) == [exists |-> TRUE, map |-> m]

\* the exceptions a task can end with
FetchError == "FetchError"
ExtractionError == "ExtractionError"
TaskErrors == {FetchError, ExtractionError}

VARIABLES
    parsed_links,   \* label -> URL
    poolSize,       \* number of worker processes of the pool
    contentFile,    \* content_cache.txt
    keywordsFile,   \* keywords_cache.txt
    contents,       \* process_links' contents: [shared, map]
    keywords,       \* process_links' keywords: [shared, map]
    lcontents,      \* per task: the unpickled copy of a plain-dict contents
    lkeywords,      \* per task: the unpickled copy of a plain-dict keywords
    wpc,            \* per task: position of process_link in the pool
    wcontent,       \* per task: the value contents[link] read for get_keywords
    res,            \* per task: the AsyncResult
    results,        \* process_links' results list (labels of the tasks)
    dpc,            \* position of process_links
    idx,            \* position of the for loop over results
    rerun,          \* FALSE in the first rerun, TRUE when the program is run again
    nfetch,         \* per link: calls of get_content in this run
    nextract,       \* per link: calls of get_keywords in this run
    prevFetch,      \* per link: calls of get_content in earlier runs
    extracted,      \* per task: what its get_keywords call returned
    handled,        \* tasks whose error the except branch has handled
    startC,         \* contents as loaded at the start of the run
    startK,         \* keywords as loaded at the start of the run
    raw,            \* simplify_keywords: its argument as it was passed
    skeywords,      \* simplify_keywords: the argument, rewritten in place
    keywords_no_strength,   \* simplify_keywords: the result
    spc,            \* simplify_keywords: position
    links,          \* group_links_by_domain: links.values(), in the dict's order
    result_domain,  \* group_links_by_domain: the buckets, in insertion order
    gpc             \* group_links_by_domain: position

pipeVars == <<parsed_links, poolSize, contentFile, keywordsFile, contents, keywords,
              lcontents, lkeywords, wpc, wcontent, res, results, dpc, idx, rerun,
              nfetch, nextract, prevFetch, extracted, handled, startC, startK>>

simpVars == <<raw, skeywords, keywords_no_strength, spc>>

groupVars == <<links, result_domain, gpc>>

\* the state of the stages that follow process_links
postVars == <<simpVars, groupVars>>

vars == <<pipeVars, simpVars, groupVars>>

(* ------------------------------ helpers ------------------------------- *)

LinkOf(t) == parsed_links[t]

\* a task occupies a pool worker from the moment process_link starts until it ends
RunningPcs == {"chk_c", "fetch", "chk_k", "read_c", "extract", "hung"}
Running == {t \in Labels : wpc[t] \in RunningPcs}

\* res.ready()
Ready(t) == res[t] \in {"ok"} \cup TaskErrors
\* res.ready() and not res.successful()
ReadyFailed(t) == res[t] \in TaskErrors

\* mutant: an empty value counts as missing (if not mapping.get(link))
MissingOrEmpty(map, link) == map[link] \in {Absent, EMPTY_CONTENT}

\* link not in <mapping>
Missing(map, link) == map[link] = Absent

\* mutant: tasks start as soon as they are submitted
NoCeiling == TRUE

\* Pool(12): a task is taken by a worker only while one of the workers is free
WorkerFree == Cardinality(Running) < poolSize

\* mutant: except requests.RequestException
CaughtFetchOnly(exc) == exc = FetchError

\* except Exception: every exception a task ends with is an Exception
Caught(exc) == exc \in TaskErrors

\* the mapping a task sees: the manager's dict through the proxy, or its own copy
TaskContents(t) == IF contents.shared THEN contents.map ELSE lcontents[t]
TaskKeywords(t) == IF keywords.shared THEN keywords.map ELSE lkeywords[t]

\* contents[link] = v inside process_link
TaskSetContents(t, v) ==
    IF contents.shared
      THEN /\ contents' = [contents EXCEPT !.map[LinkOf(t)] = v]
           /\ UNCHANGED lcontents
      ELSE /\ lcontents' = [lcontents EXCEPT ![t][LinkOf(t)] = v]
           /\ UNCHANGED contents

\* keywords[link] = v inside process_link
TaskSetKeywords(t, v) ==
    IF keywords.shared
      THEN /\ keywords' = [keywords EXCEPT !.map[LinkOf(t)] = v]
           /\ UNCHANGED lkeywords
      ELSE /\ lkeywords' = [lkeywords EXCEPT ![t][LinkOf(t)] = v]
           /\ UNCHANGED keywords

\* load_content_cache / load_keywords_cache: {} when the file is missing,
\* otherwise a manager.dict() holding the file's mapping
LoadCache(file) ==
    IF file.exists THEN [shared |-> TRUE, map |-> file.map]
                   ELSE [shared |-> FALSE, map |-> EmptyMap]

\* update_content_cache / update_keywords_cache: the whole mapping is written
PersistCache(map) == FileOf(map)

\* mutant: the marker is stored as the content too
ErrorAsContent == "ERROR"

\* contents[link] = ''
ErrorContent == EMPTY_CONTENT
\* keywords[link] = [('ERROR', 0.0)]
ErrorKeywords == ERROR_KEYWORDS

\* mutant: only the tasks that no worker has taken yet are kept
StillQueued(rs) == SelectSeq(rs, LAMBDA t : wpc[t] \in {"queued", "sent"})

\* [(res, link) for res, link in results if not res.ready()]
StillPending(rs) == SelectSeq(rs, LAMBDA t : ~Ready(t))

(* ------------------------------- Init --------------------------------- *)

\* the cache files a run can find: missing, empty, or holding an entry for u1
\* <<content_cache.txt, keywords_cache.txt>>
InitFiles ==
    {<<NoFile, NoFile>>,
     <<FileOf(EmptyMap), FileOf(EmptyMap)>>,
     <<FileOf(EmptyMap), NoFile>>,
     <<FileOf([EmptyMap EXCEPT !["u1"] = EMPTY_CONTENT]),
       FileOf([EmptyMap EXCEPT !["u1"] = ERROR_KEYWORDS])>>,
     <<FileOf([EmptyMap EXCEPT !["u1"] = TextOf("u1")]),
       FileOf([EmptyMap EXCEPT !["u1"] = KeywordsOf(TextOf("u1"))])>>,
     <<FileOf([EmptyMap EXCEPT !["u1"] = TextOf("u1")]), FileOf(EmptyMap)>>}

FreshTasks ==
    /\ lcontents = [t \in Labels |-> EmptyMap]
    /\ lkeywords = [t \in Labels |-> EmptyMap]
    /\ wpc = [t \in Labels |-> "idle"]
    /\ wcontent = [t \in Labels |-> Absent]
    /\ res = [t \in Labels |-> "none"]
    /\ extracted = [t \in Labels |-> Absent]

PipeInit ==
    /\ parsed_links \in [Labels -> Links]
    /\ poolSize \in 1..MaxPool
    /\ \E files \in InitFiles :
          /\ contentFile = files[1]
          /\ keywordsFile = files[2]
    /\ contents = LoadCache(NoFile)
    /\ keywords = LoadCache(NoFile)
    /\ FreshTasks
    /\ results = <<>>
    /\ dpc = "load"
    /\ idx = 1
    /\ rerun = FALSE
    /\ nfetch = [l \in Links |-> 0]
    /\ nextract = [l \in Links |-> 0]
    /\ prevFetch = [l \in Links |-> 0]
    /\ handled = {}
    /\ startC = EmptyMap
    /\ startK = EmptyMap

(* ----------------------------- dispatcher ----------------------------- *)

inVars == <<parsed_links, poolSize>>
taskVars == <<lcontents, lkeywords, wpc, wcontent, res, extracted>>
countVars == <<nfetch, nextract, prevFetch>>
fileVars == <<contentFile, keywordsFile>>
startVars == <<startC, startK>>

\* contents = load_content_cache(manager); keywords = load_keywords_cache(manager)
Load ==
    /\ dpc = "load"
    /\ contents' = LoadCache(contentFile)
    /\ keywords' = LoadCache(keywordsFile)
    /\ startC' = contents'.map
    /\ startK' = keywords'.map
    /\ dpc' = IF NumLabels = 0 THEN "poll" ELSE "submit"
    /\ UNCHANGED <<inVars, fileVars, taskVars, results, idx, rerun,
                   countVars, handled, postVars>>

\* one iteration of: for link in parsed_links.values(): pool.apply_async(...);
\* the last one is followed by pool.close()
Submit ==
    /\ dpc = "submit"
    /\ LET t == Len(results) + 1 IN
        /\ res' = [res EXCEPT ![t] = "pending"]
        /\ wpc' = [wpc EXCEPT ![t] = "queued"]
        /\ results' = Append(results, t)
        /\ dpc' = IF t = NumLabels THEN "poll" ELSE "submit"
    /\ UNCHANGED <<inVars, fileVars, contents, keywords, lcontents,
                   lkeywords, wcontent, extracted, idx, rerun, countVars,
                   handled, startVars, postVars>>

\* while len(results) > 0: sleep(10); print(...)
Poll ==
    /\ dpc = "poll"
    /\ dpc' = IF Len(results) > 0 THEN "scan" ELSE "join"
    /\ idx' = 1
    /\ UNCHANGED <<inVars, fileVars, contents, keywords, taskVars,
                   results, rerun, countVars, handled, startVars, postVars>>

AfterScan == IF idx = Len(results) THEN "filter" ELSE "scan"

\* for res, link in results: if res.ready() and not res.successful(): res.get()
Scan ==
    /\ dpc = "scan"
    /\ LET t == results[idx] IN
        IF ReadyFailed(t)
          THEN /\ dpc' = IF Caught(res[t]) THEN "err_c" ELSE "raised"
               /\ UNCHANGED idx
          ELSE /\ dpc' = AfterScan
               /\ idx' = idx + 1
    /\ UNCHANGED <<inVars, fileVars, contents, keywords, taskVars,
                   results, rerun, countVars, handled, startVars, postVars>>

\* except Exception as e: logging.exception(e); contents[link] = ''
ErrContent ==
    /\ dpc = "err_c"
    /\ contents' = [contents EXCEPT !.map[LinkOf(results[idx])] = ErrorContent]
    /\ dpc' = "err_k"
    /\ UNCHANGED <<inVars, fileVars, keywords, taskVars, results, idx,
                   rerun, countVars, handled, startVars, postVars>>

\* keywords[link] = [('ERROR', 0.0)]
ErrKeywords ==
    /\ dpc = "err_k"
    /\ keywords' = [keywords EXCEPT !.map[LinkOf(results[idx])] = ErrorKeywords]
    /\ handled' = handled \cup {results[idx]}
    /\ dpc' = AfterScan
    /\ idx' = idx + 1
    /\ UNCHANGED <<inVars, fileVars, contents, taskVars, results, rerun,
                   countVars, startVars, postVars>>

\* results = [(res, link) for res, link in results if not res.ready()]
Filter ==
    /\ dpc = "filter"
    /\ results' = StillPending(results)
    /\ dpc' = "flush_c"
    /\ UNCHANGED <<inVars, fileVars, contents, keywords, taskVars, idx,
                   rerun, countVars, handled, startVars, postVars>>

\* update_caches, first half: update_content_cache(dict(contents))
UpdateContentCache ==
    /\ dpc \in {"flush_c", "final_c"}
    /\ contentFile' = PersistCache(contents.map)
    /\ dpc' = IF dpc = "flush_c" THEN "flush_k" ELSE "final_k"
    /\ UNCHANGED <<inVars, keywordsFile, contents, keywords, taskVars,
                   results, idx, rerun, countVars, handled, startVars, postVars>>

\* update_caches, second half: update_keywords_cache(dict(keywords));
\* after the final flush: return dict(keywords)
UpdateKeywordsCache ==
    /\ dpc \in {"flush_k", "final_k"}
    /\ keywordsFile' = PersistCache(keywords.map)
    /\ dpc' = IF dpc = "flush_k" THEN "poll" ELSE "returned"
    /\ UNCHANGED <<inVars, contentFile, contents, keywords, taskVars,
                   results, idx, rerun, countVars, handled, startVars, postVars>>

\* pool.join(): waits until the workers have exited
Join ==
    /\ dpc = "join"
    /\ \A t \in Labels : wpc[t] = "done"
    /\ dpc' = "final_c"
    /\ UNCHANGED <<inVars, fileVars, contents, keywords, taskVars,
                   results, idx, rerun, countVars, handled, startVars, postVars>>

\* the program is run again on the same links, with the files the run left
Rerun ==
    /\ dpc = "returned"
    /\ ~rerun
    /\ rerun' = TRUE
    /\ dpc' = "load"
    /\ contents' = LoadCache(NoFile)
    /\ keywords' = LoadCache(NoFile)
    /\ lcontents' = [t \in Labels |-> EmptyMap]
    /\ lkeywords' = [t \in Labels |-> EmptyMap]
    /\ wpc' = [t \in Labels |-> "idle"]
    /\ wcontent' = [t \in Labels |-> Absent]
    /\ res' = [t \in Labels |-> "none"]
    /\ extracted' = [t \in Labels |-> Absent]
    /\ results' = <<>>
    /\ idx' = 1
    /\ prevFetch' = [l \in Links |-> prevFetch[l] + nfetch[l]]
    /\ nfetch' = [l \in Links |-> 0]
    /\ nextract' = [l \in Links |-> 0]
    /\ handled' = {}
    /\ startC' = EmptyMap
    /\ startK' = EmptyMap
    /\ UNCHANGED <<inVars, fileVars, postVars>>

(* ------------------------------ workers ------------------------------- *)

dispVars == <<results, dpc, idx, rerun, handled, startVars>>

\* the pool's task handler pickles (process_link, (link, contents, keywords)):
\* a plain dict is copied as it is now, a manager dict travels as a proxy
Send(t) ==
    /\ wpc[t] = "queued"
    /\ wpc' = [wpc EXCEPT ![t] = "sent"]
    /\ lcontents' = [lcontents EXCEPT ![t] =
                        IF contents.shared THEN EmptyMap ELSE contents.map]
    /\ lkeywords' = [lkeywords EXCEPT ![t] =
                        IF keywords.shared THEN EmptyMap ELSE keywords.map]
    /\ UNCHANGED <<inVars, fileVars, contents, keywords, wcontent, res,
                   extracted, dispVars, countVars, postVars>>

\* a free worker of the pool takes the task and calls process_link
Start(t) ==
    /\ wpc[t] = "sent"
    /\ WorkerFree
    /\ wpc' = [wpc EXCEPT ![t] = "chk_c"]
    /\ UNCHANGED <<inVars, fileVars, contents, keywords, lcontents,
                   lkeywords, wcontent, res, extracted, dispVars, countVars, postVars>>

\* if link not in contents:
CheckContent(t) ==
    /\ wpc[t] = "chk_c"
    /\ wpc' = [wpc EXCEPT ![t] =
                  IF Missing(TaskContents(t), LinkOf(t)) THEN "fetch" ELSE "chk_k"]
    /\ UNCHANGED <<inVars, fileVars, contents, keywords, lcontents,
                   lkeywords, wcontent, res, extracted, dispVars, countVars, postVars>>

\* contents[link] = get_content(link), get_content returning
FetchOk(t) ==
    /\ wpc[t] = "fetch"
    /\ nfetch' = [nfetch EXCEPT ![LinkOf(t)] = @ + 1]
    /\ TaskSetContents(t, TextOf(LinkOf(t)))
    /\ wpc' = [wpc EXCEPT ![t] = "chk_k"]
    /\ UNCHANGED <<inVars, fileVars, keywords, lkeywords, wcontent, res,
                   extracted, dispVars, nextract, prevFetch, postVars>>

\* contents[link] = get_content(link), get_content raising: the task ends
FetchRaise(t) ==
    /\ wpc[t] = "fetch"
    /\ nfetch' = [nfetch EXCEPT ![LinkOf(t)] = @ + 1]
    /\ res' = [res EXCEPT ![t] = FetchError]
    /\ wpc' = [wpc EXCEPT ![t] = "done"]
    /\ UNCHANGED <<inVars, fileVars, contents, keywords, lcontents,
                   lkeywords, wcontent, extracted, dispVars, nextract, prevFetch, postVars>>

\* requests.get(link, headers=header) has no timeout: the call never returns and
\* the task keeps its worker. At most one task hangs.
Hang(t) ==
    /\ wpc[t] = "fetch"
    /\ \A u \in Labels : wpc[u] # "hung"
    /\ wpc' = [wpc EXCEPT ![t] = "hung"]
    /\ UNCHANGED <<inVars, fileVars, contents, keywords, lcontents,
                   lkeywords, wcontent, res, extracted, dispVars, countVars, postVars>>

\* if link not in keywords: (otherwise process_link returns)
CheckKeywords(t) ==
    /\ wpc[t] = "chk_k"
    /\ IF Missing(TaskKeywords(t), LinkOf(t))
         THEN /\ wpc' = [wpc EXCEPT ![t] = "read_c"]
              /\ UNCHANGED res
         ELSE /\ wpc' = [wpc EXCEPT ![t] = "done"]
              /\ res' = [res EXCEPT ![t] = "ok"]
    /\ UNCHANGED <<inVars, fileVars, contents, keywords, lcontents,
                   lkeywords, wcontent, extracted, dispVars, countVars, postVars>>

\* the argument of get_keywords: contents[link]
ReadContent(t) ==
    /\ wpc[t] = "read_c"
    /\ wcontent' = [wcontent EXCEPT ![t] = TaskContents(t)[LinkOf(t)]]
    /\ wpc' = [wpc EXCEPT ![t] = "extract"]
    /\ UNCHANGED <<inVars, fileVars, contents, keywords, lcontents,
                   lkeywords, res, extracted, dispVars, countVars, postVars>>

\* keywords[link] = get_keywords(...), get_keywords returning: the task ends
ExtractOk(t) ==
    /\ wpc[t] = "extract"
    /\ nextract' = [nextract EXCEPT ![LinkOf(t)] = @ + 1]
    /\ TaskSetKeywords(t, KeywordsOf(wcontent[t]))
    /\ extracted' = [extracted EXCEPT ![t] = KeywordsOf(wcontent[t])]
    /\ res' = [res EXCEPT ![t] = "ok"]
    /\ wpc' = [wpc EXCEPT ![t] = "done"]
    /\ UNCHANGED <<inVars, fileVars, contents, lcontents, wcontent,
                   dispVars, nfetch, prevFetch, postVars>>

\* keywords[link] = get_keywords(...), get_keywords raising: the task ends
ExtractRaise(t) ==
    /\ wpc[t] = "extract"
    /\ nextract' = [nextract EXCEPT ![LinkOf(t)] = @ + 1]
    /\ res' = [res EXCEPT ![t] = ExtractionError]
    /\ wpc' = [wpc EXCEPT ![t] = "done"]
    /\ UNCHANGED <<inVars, fileVars, contents, keywords, lcontents,
                   lkeywords, wcontent, extracted, dispVars, nfetch, prevFetch, postVars>>

(* -------------------------- simplify_keywords ------------------------ *)

\* at most top_n keywords per link (top_n=5 in get_keywords), scaled down
MaxKw == 2

\* THRESHOLD = 88
THRESHOLD == 88

\* keyword strings, as tuples of characters
Vocabulary ==
    {<<"E", "R", "R", "O">>,
     <<"E", "R", "R", "O", "R">>,
     <<"E", "R", "R", "O", "R", "S">>,
     <<"n", "e", "t", "w", "o", "r", "k", "e", "d">>,
     <<"n", "e", "t", "w", "o", "r", "k", "e", "r">>,
     <<"a", "a", "a", "a", "b", "b", "a", "a", "a", "b", "a">>,
     <<"a", "a", "a", "b", "a", "a", "a", "b">>,
     <<"a", "a", "a", "b", "b", "a", "a", "a", "b", "a">>}

\* the length of the common run of a from i and b from j, inside a[..ahi], b[..bhi]
MatchLen(a, i, ahi, b, j, bhi) ==
    LET RECURSIVE Run(_)
        Run(k) == IF i + k <= ahi /\ j + k <= bhi /\ a[i + k] = b[j + k]
                    THEN Run(k + 1) ELSE k
    IN Run(0)

\* difflib's SequenceMatcher.find_longest_match(alo, ahi, blo, bhi), 1-based and
\* with inclusive ends: <<i, j, k>> with a[i..i+k-1] = b[j..j+k-1], k maximal,
\* then i minimal, then j minimal; k = 0 when no element matches
FindLongestMatch(a, alo, ahi, b, blo, bhi) ==
    LET Cands == {<<i, j, MatchLen(a, i, ahi, b, j, bhi)>> :
                     i \in alo..ahi, j \in blo..bhi}
        Better(x, y) == \/ x[3] > y[3]
                        \/ x[3] = y[3] /\ x[1] < y[1]
                        \/ x[3] = y[3] /\ x[1] = y[1] /\ x[2] <= y[2]
    IN CHOOSE x \in Cands : \A y \in Cands : Better(x, y)

\* the sum of the sizes of SequenceMatcher.get_matching_blocks(): the longest
\* match, then the same to its left and to its right
RECURSIVE Matches(_, _, _, _, _, _)
Matches(a, alo, ahi, b, blo, bhi) ==
    IF alo > ahi \/ blo > bhi THEN 0
    ELSE LET m == FindLongestMatch(a, alo, ahi, b, blo, bhi) IN
         IF m[3] = 0 THEN 0
         ELSE m[3] + Matches(a, alo, m[1] - 1, b, blo, m[2] - 1)
                   + Matches(a, m[1] + m[3], ahi, b, m[2] + m[3], bhi)

\* utils.intr(100 * m.ratio()), m.ratio() = 2.0 * matches / (len(a) + len(b)):
\* rounded to the nearest integer, halves to the even one
IntRatio(matches, total) ==
    LET n == 200 * matches
        q == n \div total
        r == n % total
    IN IF 2 * r < total THEN q
       ELSE IF 2 * r > total THEN q + 1
       ELSE IF q % 2 = 0 THEN q ELSE q + 1

\* fuzz.ratio(s1, s2): 100 for equal strings, 0 when one is empty
Ratio(s1, s2) ==
    IF s1 = s2 THEN 100
    ELSE IF Len(s1) = 0 \/ Len(s2) = 0 THEN 0
    ELSE IntRatio(Matches(s1, 1, Len(s1), s2, 1, Len(s2)), Len(s1) + Len(s2))

\* fuzz.ratio over the vocabulary, tabulated
RatioTable == [pair \in Vocabulary \X Vocabulary |-> Ratio(pair[1], pair[2])]

\* mutant: a symmetric ratio, that of the more similar argument order
SymmetricRatio(kw1, kw2) ==
    IF RatioTable[<<kw1, kw2>>] > RatioTable[<<kw2, kw1>>]
      THEN RatioTable[<<kw1, kw2>>] ELSE RatioTable[<<kw2, kw1>>]

\* ratio: int = fuzz.ratio(kw1, kw2)
FuzzRatio(kw1, kw2) == RatioTable[<<kw1, kw2>>]

\* the (link, position) slots of a mapping, in the order the loops visit them
RECURSIVE SlotsFrom(_, _)
SlotsFrom(c, n) ==
    IF n > Len(c) THEN <<>>
    ELSE [i \in 1..Len(c[n].kwds) |-> <<n, i>>] \o SlotsFrom(c, n + 1)
Slots(c) == SlotsFrom(c, 1)

SlotAt(c, p) == c[p[1]].kwds[p[2]]
\* mutant: the keyword is stored without the slot's strength
SetSlotUnscored(c, p, entry) == [c EXCEPT ![p[1]].kwds[p[2]] = <<entry[1], 0>>]

\* keywords[link][i] = (kw, strength)
SetSlot(c, p, entry) == [c EXCEPT ![p[1]].kwds[p[2]] = entry]

\* mutant: the swap is missing, the outer slot's keyword is kept
KeepFirst(kw1, kw2) == kw1

\* if len(kw1) > len(kw2): kw1, kw2 = kw2, kw1  -- the new kw1
Keep(kw1, kw2) == IF Len(kw1) > Len(kw2) THEN kw2 ELSE kw1

\* the two inner loops for the outer slot p, whose running keyword is kw1
RECURSIVE MergeInner(_, _, _, _, _)
MergeInner(c, p, kw1, str1, qs) ==
    IF qs = <<>> THEN c
    ELSE LET q == Head(qs)
             kw2 == SlotAt(c, q)[1]
             str2 == SlotAt(c, q)[2]
         IN IF q = p THEN MergeInner(c, p, kw1, str1, Tail(qs))
            ELSE IF FuzzRatio(kw1, kw2) > THRESHOLD
              THEN LET k == Keep(kw1, kw2) IN
                   MergeInner(SetSlot(SetSlot(c, p, <<k, str1>>), q, <<k, str2>>),
                              p, k, str1, Tail(qs))
              ELSE MergeInner(c, p, kw1, str1, Tail(qs))

\* the two outer loops: every slot in turn, read when the loop reaches it
RECURSIVE MergeOuter(_, _)
MergeOuter(c, ps) ==
    IF ps = <<>> THEN c
    ELSE LET p == Head(ps) IN
         MergeOuter(MergeInner(c, p, SlotAt(c, p)[1], SlotAt(c, p)[2], Slots(c)),
                    Tail(ps))

\* the merge pass, lines 162-175
MergePass(c) == MergeOuter(c, Slots(c))

\* the sequences without repetition that list the elements of a set
Orderings(S) ==
    {q \in [1..Cardinality(S) -> S] :
        \A i, j \in 1..Cardinality(S) : i # j => q[i] # q[j]}

Range(q) == {q[i] : i \in 1..Len(q)}

\* [x[0] for x in kwds]
Strings(kwds) == [i \in 1..Len(kwds) |-> kwds[i][1]]

\* mutant: set() is missing, the strings are listed as they are
AsListed(kwds) == {Strings(kwds)}

\* list(set([x[0] for x in kwds])): the distinct strings, in some order
Distinct(kwds) == Orderings(Range(Strings(kwds)))

\* the keyword lists get_keywords can return: at most MaxKw strings of the
\* vocabulary; the strength of the keyword at position i is i
KeywordLists == UNION {[1..n -> Vocabulary] : n \in 0..MaxKw}
WithStrength(ws) == [i \in 1..Len(ws) |-> <<ws[i], i>>]

\* the keyword of the dispatcher's sentinel [('ERROR', 0.0)], and the sentinel
SENTINEL_KEYWORD == <<"E", "R", "R", "O", "R">>
SentinelList == << <<SENTINEL_KEYWORD, 0>> >>

\* the values process_links returns for a link: what get_keywords returned, or
\* the sentinel
RawLists == {WithStrength(ws) : ws \in KeywordLists} \cup {SentinelList}

\* the keys of the argument, in the order of the dict: none, one or both links
LinkOrders == {<<>>, <<"u1">>, <<"u1", "u2">>}

SimpIdle ==
    /\ raw = <<>>
    /\ skeywords = <<>>
    /\ keywords_no_strength = <<>>
    /\ spc = "idle"

SimpInit ==
    /\ \E order \in LinkOrders :
          \E lists \in [1..Len(order) -> RawLists] :
              raw = [n \in 1..Len(order) |->
                        [link |-> order[n], kwds |-> lists[n]]]
    /\ skeywords = raw
    /\ keywords_no_strength = <<>>
    /\ spc = "merge"

\* the merge pass of simplify_keywords
Merge ==
    /\ spc = "merge"
    /\ skeywords' = MergePass(skeywords)
    /\ spc' = "reduce"
    /\ UNCHANGED <<pipeVars, raw, keywords_no_strength, groupVars>>

\* for link, kwds in keywords.items(): keywords_no_strength[link] = ...;
\* return keywords_no_strength
Reduce ==
    /\ spc = "reduce"
    /\ \E strs \in [1..Len(skeywords) -> UNION {Distinct(kwds) : kwds \in
                         {skeywords[n].kwds : n \in 1..Len(skeywords)}}] :
          /\ \A n \in 1..Len(skeywords) : strs[n] \in Distinct(skeywords[n].kwds)
          /\ keywords_no_strength' =
                 [n \in 1..Len(skeywords) |->
                     [link |-> skeywords[n].link, kwds |-> strs[n]]]
    /\ spc' = "done"
    /\ UNCHANGED <<pipeVars, raw, skeywords, groupVars>>

(* ------------------------ group_links_by_domain ---------------------- *)

\* number of entries of the links argument
MaxLinks == 3

\* links, as tuples of characters
URLs ==
    {<<"h", "t", "t", "p", "s", ":", "/", "/", "a", "/", "x">>,
     <<"h", "t", "t", "p", ":", "/", "/", "a", "/", "y">>,
     <<"h", "t", "t", "p", "s", ":", "/", "/", "b", "/", "z">>,
     <<"h", "t", "t", "p", "s", ":", "/", "/", "a">>,
     <<"h", "t", "t", "p", "s", ":", "/", "/", "a", "?", "q">>,
     <<"f", "t", "p", ":", "/", "/", "a", "/", "x">>,
     <<"h", "t", "t", "p", "s", ":", "/", "/", "/", "x">>}

\* the pattern's literal lit matches s from position i on
LiteralAt(s, i, lit) ==
    /\ i + Len(lit) - 1 <= Len(s)
    /\ \A k \in 1..Len(lit) : s[i + k - 1] = lit[k]

\* https?:// at the start of the link: the position after it, 0 when no match
AfterScheme(s) ==
    IF ~LiteralAt(s, 1, <<"h", "t", "t", "p">>) THEN 0
    ELSE IF LiteralAt(s, 5, <<"s", ":", "/", "/">>) THEN 9
    ELSE IF LiteralAt(s, 5, <<":", "/", "/">>) THEN 8
    ELSE 0

\* ([^/]+) from position i: the last position of the longest run without "/"
RECURSIVE RunEnd(_, _)
RunEnd(s, i) == IF i <= Len(s) /\ s[i] # "/" THEN RunEnd(s, i + 1) ELSE i - 1

\* re.match(r'https?://([^/]+)', link) is not None
ReMatch(link) ==
    /\ AfterScheme(link) # 0
    /\ RunEnd(link, AfterScheme(link)) >= AfterScheme(link)

\* re.match(r'https?://([^/]+)', link).group(1)
Domain(link) == SubSeq(link, AfterScheme(link), RunEnd(link, AfterScheme(link)))

\* the position of the bucket of domain d, 0 when there is none
BucketOf(rd, d) ==
    IF \E n \in 1..Len(rd) : rd[n].domain = d
      THEN CHOOSE n \in 1..Len(rd) : rd[n].domain = d
      ELSE 0

\* result_domain[domain].append(link): a missing key is inserted at the end
AppendLink(rd, d, link) ==
    IF BucketOf(rd, d) = 0
      THEN Append(rd, [domain |-> d, links |-> <<link>>])
      ELSE [rd EXCEPT ![BucketOf(rd, d)].links = Append(@, link)]

\* for link in links.values(): ...
RECURSIVE GroupFrom(_, _, _)
GroupFrom(rd, ls, i) ==
    IF i > Len(ls) THEN rd
    ELSE GroupFrom(AppendLink(rd, Domain(ls[i]), ls[i]), ls, i + 1)

GroupIdle ==
    /\ links = <<>>
    /\ result_domain = <<>>
    /\ gpc = "idle"

GroupInit ==
    /\ links \in UNION {[1..n -> URLs] : n \in 0..MaxLinks}
    /\ result_domain = <<>>
    /\ gpc = "call"

\* group_links_by_domain returning: every link matches the pattern
GroupReturn ==
    /\ gpc = "call"
    /\ \A i \in 1..Len(links) : ReMatch(links[i])
    /\ result_domain' = GroupFrom(<<>>, links, 1)
    /\ gpc' = "returned"
    /\ UNCHANGED <<pipeVars, simpVars, links>>

\* group_links_by_domain raising: re.match returns None for some link, and
\* None.group(1) raises AttributeError; the buckets built so far are lost
GroupRaise ==
    /\ gpc = "call"
    /\ \E i \in 1..Len(links) : ~ReMatch(links[i])
    /\ gpc' = "raised"
    /\ UNCHANGED <<pipeVars, simpVars, links, result_domain>>

Dispatcher ==
    \/ Load
    \/ Submit
    \/ Poll
    \/ Scan
    \/ ErrContent
    \/ ErrKeywords
    \/ Filter
    \/ UpdateContentCache
    \/ UpdateKeywordsCache
    \/ Join

Worker(t) ==
    \/ Send(t)
    \/ Start(t)
    \/ CheckContent(t)
    \/ FetchOk(t)
    \/ FetchRaise(t)
    \/ CheckKeywords(t)
    \/ ReadContent(t)
    \/ ExtractOk(t)
    \/ ExtractRaise(t)

Next ==
    \/ Dispatcher
    \/ \E t \in Labels : Worker(t)
    \/ Rerun

Init == PipeInit /\ SimpIdle /\ GroupIdle

\* process_links
Spec == Init /\ [][Next]_vars

PipeIdle ==
    /\ parsed_links = [t \in Labels |-> "u1"]
    /\ poolSize = 1
    /\ contentFile = NoFile
    /\ keywordsFile = NoFile
    /\ contents = LoadCache(NoFile)
    /\ keywords = LoadCache(NoFile)
    /\ FreshTasks
    /\ results = <<>>
    /\ dpc = "idle"
    /\ idx = 1
    /\ rerun = FALSE
    /\ nfetch = [l \in Links |-> 0]
    /\ nextract = [l \in Links |-> 0]
    /\ prevFetch = [l \in Links |-> 0]
    /\ handled = {}
    /\ startC = EmptyMap
    /\ startK = EmptyMap

SimplifyInit == PipeIdle /\ SimpInit /\ GroupIdle

SimplifyNext == Merge \/ Reduce

\* simplify_keywords
SimplifySpec == SimplifyInit /\ [][SimplifyNext]_vars

\* one call of process_links in which the fetch of one task may hang
HangNext ==
    \/ Dispatcher
    \/ \E t \in Labels : Worker(t)
    \/ \E t \in Labels : Hang(t)

\* process_links under fair scheduling of the dispatcher and the workers, every
\* call of get_content and get_keywords ending unless it is the one that hangs
HangSpec ==
    /\ Init
    /\ [][HangNext]_vars
    /\ WF_vars(Dispatcher)
    /\ \A t \in Labels : WF_vars(Worker(t))

GroupStart == PipeIdle /\ SimpIdle /\ GroupInit

GroupNext == GroupReturn \/ GroupRaise

\* group_links_by_domain
GroupSpec == GroupStart /\ [][GroupNext]_vars

\* process_links when the operating system keeps scheduling the dispatcher and
\* every worker process, and every call of get_content and get_keywords ends
\* (by returning or by raising)
FairSpec ==
    /\ Init
    /\ [][Next]_vars
    /\ WF_vars(Dispatcher)
    /\ \A t \in Labels : WF_vars(Worker(t))

(* ------------------------------ C1 .. C8 ------------------------------ *)

Failed == {t \in Labels : res[t] \in TaskErrors}
FailedLinks == {LinkOf(t) : t \in Failed}

\* C1: error isolation. When process_links returns from a run in which some
\* task raised, every failing link has Content "" and KeywordSet
\* [("ERROR", 0.0)], and every other link holds the keywords its task extracted.
C1_ErrorIsolation ==
    (dpc = "returned" /\ Failed # {}) =>
        \A t \in Labels :
            /\ t \in Failed =>
                  /\ contents.map[LinkOf(t)] = EMPTY_CONTENT
                  /\ keywords.map[LinkOf(t)] = ERROR_KEYWORDS
            /\ (LinkOf(t) \notin FailedLinks /\ extracted[t] # Absent) =>
                  keywords.map[LinkOf(t)] = extracted[t]

\* C2: idempotence. The run that starts from the caches the first run persisted
\* calls neither get_content nor get_keywords, for any link.
C2_Idempotence ==
    rerun => \A l \in Links : nfetch[l] = 0 /\ nextract[l] = 0

\* C3: get_content is executed at most once per link, over all the tasks of a
\* run and over the later runs.
C3_ContentAtMostOnce ==
    \A l \in Links : prevFetch[l] + nfetch[l] <= 1

\* a step of the worker task t inside process_link
TaskStep(t) == wpc[t] \in RunningPcs /\ wpc'[t] # wpc[t]

\* C4 as stated: single writer. No step of a worker task changes the
\* Link->Content or the Link->KeywordSet mapping of process_links.
C4_SingleWriter ==
    [][\A t \in Labels : TaskStep(t) => contents' = contents /\ keywords' = keywords]_vars

ChangedContents == {l \in Links : contents'.map[l] # contents.map[l]}
ChangedKeywords == {l \in Links : keywords'.map[l] # keywords.map[l]}

\* the dispatcher writes a sentinel for the link of a task it found ready and failed
DispatcherWrite ==
    /\ dpc \in {"err_c", "err_k"}
    /\ wpc' = wpc
    /\ ReadyFailed(results[idx])
    /\ ChangedContents \subseteq {LinkOf(results[idx])}
    /\ ChangedKeywords \subseteq {LinkOf(results[idx])}
    /\ \A l \in ChangedContents : contents'.map[l] = EMPTY_CONTENT
    /\ \A l \in ChangedKeywords : keywords'.map[l] = ERROR_KEYWORDS

\* a worker task stores what get_content or get_keywords returned, under its own
\* link, in a mapping that is the manager's
WorkerWrite ==
    \E t \in Labels :
        /\ TaskStep(t)
        /\ dpc' = dpc
        /\ ChangedContents \subseteq {LinkOf(t)}
        /\ ChangedKeywords \subseteq {LinkOf(t)}
        /\ \A l \in ChangedContents :
              contents.shared /\ wpc[t] = "fetch" /\ contents'.map[l] = TextOf(l)
        /\ \A l \in ChangedKeywords :
              keywords.shared /\ wpc[t] = "extract"
                  /\ keywords'.map[l] = KeywordsOf(wcontent[t])

\* C4, amended: during a run the two mappings have two kinds of writer. A worker
\* task stores the content it fetched and the keywords it extracted under its
\* own link; the dispatcher writes only the sentinels "" and [("ERROR", 0.0)],
\* and only for the link of a task it found ready and failed.
C4_Writers ==
    [][(dpc # "load" /\ dpc' # "load"
            /\ (ChangedContents # {} \/ ChangedKeywords # {}))
          => (DispatcherWrite \/ WorkerWrite)]_vars

\* a worker stored a content in the manager's mapping and the dispatcher a sentinel
C4_Witness ==
    /\ contents.shared
    /\ handled # {}
    /\ \E l \in Links : startC[l] = Absent /\ contents.map[l] = TextOf(l)

\* C5: process_links returns only when every submitted task has succeeded or has
\* been converted to the error sentinel, and right after a flush: both files hold
\* the mappings it returns from.
C5_Termination ==
    dpc = "returned" =>
        /\ \A t \in Labels : res[t] = "ok" \/ (res[t] \in TaskErrors /\ t \in handled)
        /\ contentFile = FileOf(contents.map)
        /\ keywordsFile = FileOf(keywords.map)

\* C6: a failure inside a task never aborts the run. Whatever tasks raise,
\* process_links never ends with an exception, and every run that has loaded its
\* caches reaches its return with every task run to its end.
C6_NeverAborts ==
    /\ [](dpc # "raised")
    /\ [](dpc = "submit" => <>(dpc = "returned" /\ \A t \in Labels : wpc[t] = "done"))

\* process_links has returned from a run in which one task raised and another
\* ended normally after it
C6_Witness ==
    /\ dpc = "returned"
    /\ \E t, u \in Labels : res[t] \in TaskErrors /\ res[u] = "ok" /\ t < u

PollPcs == {"poll", "scan", "err_c", "err_k", "filter", "flush_c", "flush_k"}

\* C7: bounded concurrency. The number of tasks inside process_link never
\* exceeds the size of the pool, and the poll loop starts only when every link's
\* task has been submitted.
C7_BoundedConcurrency ==
    /\ Cardinality(Running) <= poolSize
    /\ dpc \in PollPcs => \A t \in Labels : res[t] # "none"

\* the pool is full while a submitted task waits for a worker
C7_Witness ==
    /\ Cardinality(Running) = poolSize
    /\ \E t \in Labels : wpc[t] = "sent"

Poisoned == {l \in Links : startC[l] = EMPTY_CONTENT /\ startK[l] = ERROR_KEYWORDS}

\* C8: poison pill. For a link whose entries are "" and [("ERROR", 0.0)] when the
\* run starts, the run calls neither get_content nor get_keywords, and both
\* entries are the sentinels when process_links returns.
C8_PoisonPill ==
    \A l \in Poisoned :
        /\ nfetch[l] = 0
        /\ nextract[l] = 0
        /\ dpc = "returned" =>
              /\ contents.map[l] = EMPTY_CONTENT
              /\ keywords.map[l] = ERROR_KEYWORDS

\* process_links has returned from a run that had a task for a poisoned link
C8_Witness ==
    /\ dpc = "returned"
    /\ \E t \in Labels : LinkOf(t) \in Poisoned /\ res[t] = "ok"

(* ------------------------------ C9 .. C10 ----------------------------- *)

Merged == spc \in {"reduce", "done"}

SlotSet(c) == {<<n, i>> : n \in 1..Len(c), i \in 1..MaxKw} \cap Range(Slots(c))

\* the loops visit slot p before slot q
Before(p, q) == p[1] < q[1] \/ (p[1] = q[1] /\ p[2] < q[2])

RawKw(p) == SlotAt(raw, p)[1]
NowKw(p) == SlotAt(skeywords, p)[1]

\* the input strings of two slots are near-duplicates
Similar(p, q) == FuzzRatio(RawKw(p), RawKw(q)) > THRESHOLD

\* the shorter of the input strings of p and q; on equal length that of p
Shorter(p, q) == IF Len(RawKw(q)) < Len(RawKw(p)) THEN RawKw(q) ELSE RawKw(p)

\* C9 as stated: merge correctness. After the merge pass, any two distinct slots
\* whose input strings have ratio > 88 both hold the shorter of the two input
\* strings (on equal length, that of the slot visited first).
C9_MergeCorrectness ==
    Merged =>
        \A p, q \in SlotSet(raw) :
            (Before(p, q) /\ Similar(p, q)) =>
                NowKw(p) = Shorter(p, q) /\ NowKw(q) = Shorter(p, q)

\* no other slot's input string is a near-duplicate of that of p or of q
Alone(p, q) ==
    \A r \in SlotSet(raw) \ {p, q} :
        /\ FuzzRatio(RawKw(r), RawKw(p)) <= THRESHOLD
        /\ FuzzRatio(RawKw(r), RawKw(q)) <= THRESHOLD
        /\ FuzzRatio(RawKw(p), RawKw(r)) <= THRESHOLD
        /\ FuzzRatio(RawKw(q), RawKw(r)) <= THRESHOLD

\* C9, amended: after the merge pass, two distinct slots whose input strings have
\* ratio > 88, and to whose input strings no other slot's input string has
\* ratio > 88, both hold the shorter of the two input strings (on equal length,
\* that of the slot visited first).
C9_MergeIsolatedPair ==
    Merged =>
        \A p, q \in SlotSet(raw) :
            (Before(p, q) /\ Similar(p, q) /\ Alone(p, q)) =>
                NowKw(p) = Shorter(p, q) /\ NowKw(q) = Shorter(p, q)

\* the pass has merged an isolated pair whose later string is the shorter one,
\* and an isolated pair of different strings of equal length
C9_Witness ==
    /\ Merged
    /\ \E p, q \in SlotSet(raw) :
          /\ Before(p, q) /\ Similar(p, q) /\ Alone(p, q)
          /\ Len(RawKw(q)) < Len(RawKw(p))
    /\ \E p, q \in SlotSet(raw) :
          /\ Before(p, q) /\ Similar(p, q) /\ Alone(p, q)
          /\ Len(RawKw(q)) = Len(RawKw(p)) /\ RawKw(q) # RawKw(p)

\* every keyword string of the argument as it was passed
RawStrings == UNION {Range(Strings(raw[n].kwds)) : n \in 1..Len(raw)}

\* C10: reduction bound. The result has the keys of the argument; for every link
\* its list has no repeated string, is no longer than the link's raw keyword
\* list, and holds only strings that occur somewhere in the raw corpus.
C10_ReductionBound ==
    spc = "done" =>
        /\ {keywords_no_strength[n].link : n \in 1..Len(keywords_no_strength)}
              = {raw[n].link : n \in 1..Len(raw)}
        /\ Len(keywords_no_strength) = Len(raw)
        /\ \A n \in 1..Len(keywords_no_strength), m \in 1..Len(raw) :
              keywords_no_strength[n].link = raw[m].link =>
                  LET out == keywords_no_strength[n].kwds IN
                  /\ \A i, j \in 1..Len(out) : i # j => out[i] # out[j]
                  /\ Len(out) <= Len(raw[m].kwds)
                  /\ Range(out) \subseteq RawStrings

\* a link whose raw strings were all different ends with a shorter list, and
\* holds a string that came from another link
C10_Witness ==
    /\ spc = "done"
    /\ \E n \in 1..Len(raw) :
          /\ Cardinality(Range(Strings(raw[n].kwds))) = Len(raw[n].kwds)
          /\ Len(keywords_no_strength[n].kwds) < Len(raw[n].kwds)
          /\ ~(Range(keywords_no_strength[n].kwds) \subseteq Range(Strings(raw[n].kwds)))

(* ----------------------------- C11 .. C12 ----------------------------- *)

\* C11: the failure marker survives deduplication. A link whose raw KeywordSet
\* is the sentinel [("ERROR", 0.0)] has the final keyword list ["ERROR"],
\* whatever strings the other links' slots hold.
C11_MarkerSurvives ==
    spc = "done" =>
        \A n \in 1..Len(raw) :
            raw[n].kwds = SentinelList =>
                keywords_no_strength[n].kwds = <<SENTINEL_KEYWORD>>

\* the host of a link: what follows http(s):// up to the first "/", "?" or "#"
RECURSIVE HostEnd(_, _)
HostEnd(s, i) ==
    IF i <= Len(s) /\ s[i] \notin {"/", "?", "#"} THEN HostEnd(s, i + 1) ELSE i - 1

WellFormed(link) ==
    /\ AfterScheme(link) # 0
    /\ HostEnd(link, AfterScheme(link)) >= AfterScheme(link)

Host(link) == SubSeq(link, AfterScheme(link), HostEnd(link, AfterScheme(link)))

\* the position in links of the first link with host h
FirstSeen(h) ==
    CHOOSE i \in 1..Len(links) :
        /\ Host(links[i]) = h
        /\ \A j \in 1..(i - 1) : Host(links[j]) # h

RECURSIVE SumSizes(_, _)
SumSizes(rd, n) == IF n > Len(rd) THEN 0 ELSE Len(rd[n].links) + SumSizes(rd, n + 1)

\* C12: group_links_by_domain partitions its input. The call fails exactly when
\* some link does not have the http(s)://host shape; otherwise every bucket
\* holds, in their original order, exactly the links whose host is the bucket's
\* key, the keys are in first-seen order, and the sizes sum to the number of links.
C12_GroupByHost ==
    /\ gpc = "raised" => \E i \in 1..Len(links) : ~WellFormed(links[i])
    /\ gpc = "returned" =>
          /\ \A i \in 1..Len(links) : WellFormed(links[i])
          /\ \A n \in 1..Len(result_domain) :
                /\ result_domain[n].links # <<>>
                /\ result_domain[n].links =
                      SelectSeq(links, LAMBDA l : Host(l) = result_domain[n].domain)
          /\ \A n, m \in 1..Len(result_domain) :
                n < m => FirstSeen(result_domain[n].domain)
                            < FirstSeen(result_domain[m].domain)
          /\ SumSizes(result_domain, 1) = Len(links)

(* ------------------------- C13 .. C15, C19, C20 ----------------------- *)

\* C13: per-task state machine of the poll loop. A submitted task is out of the
\* results list only when it succeeded or, if it failed, when the except branch
\* has written both sentinels for its link.
C13_ResolvedBeforeRemoved ==
    \A t \in Labels :
        (res[t] # "none" /\ t \notin Range(results)) =>
            (res[t] = "ok" \/ (res[t] \in TaskErrors /\ t \in handled))

\* some link has the ERROR keyword sentinel without the "" content sentinel
HalfPopulated(cm, km) ==
    \E l \in Links : km[l] = ERROR_KEYWORDS /\ cm[l] # EMPTY_CONTENT

\* both files are as one call of update_caches (or the start of the run) left them
BetweenFlushes == dpc \notin {"flush_k", "final_k"}

\* C14: no half-populated error state. After every flush the persisted stores,
\* and at return the two mappings, pair the keyword sentinel [("ERROR", 0.0)]
\* only with the content sentinel "".
C14_NoHalfError ==
    /\ BetweenFlushes => ~HalfPopulated(contentFile.map, keywordsFile.map)
    /\ dpc = "returned" => ~HalfPopulated(contents.map, keywords.map)

\* process_link has returned normally for task t
Completed(t) == wpc[t] = "done" /\ res[t] = "ok"

\* C15: checkpointing. Every iteration of the poll loop ends with update_caches,
\* and each of its two writes persists an entry for the link of every task that
\* has completed by then (its content, and the keywords it extracted).
C15_Checkpoint ==
    [][/\ (dpc = "filter" /\ dpc' # dpc) => dpc' = "flush_c"
       /\ (dpc' = "poll" /\ dpc # "poll") => dpc \in {"flush_k", "submit"}
       /\ (dpc = "flush_c" /\ dpc' = "flush_k") =>
             \A t \in Labels :
                 Completed(t) => contentFile'.map[LinkOf(t)] # Absent
       /\ (dpc = "flush_k" /\ dpc' = "poll") =>
             \A t \in Labels :
                 (Completed(t) /\ extracted[t] # Absent) =>
                     keywordsFile'.map[LinkOf(t)] # Absent]_vars

\* the run found neither cache file
ColdStart == ~contents.shared /\ ~keywords.shared /\ dpc \notin {"load"}

\* C19: cold-start completeness. When process_links returns from a run that
\* found no cache file, the mapping it returns and both files hold an entry for
\* every submitted link.
C19_ColdStartComplete ==
    (dpc = "returned" /\ ColdStart) =>
        \A t \in Labels :
            /\ keywords.map[LinkOf(t)] # Absent
            /\ keywordsFile.map[LinkOf(t)] # Absent
            /\ contentFile.map[LinkOf(t)] # Absent

\* C20: persisted-pair consistency. In the first run (whose loaded caches
\* satisfy it), after every flush every link with an entry in keywords_cache.txt
\* has an entry in content_cache.txt.
C20_PairConsistency ==
    (~rerun /\ BetweenFlushes) =>
        \A l \in Links : keywordsFile.map[l] # Absent => contentFile.map[l] # Absent

(* ----------------------------- C17 .. C18 ----------------------------- *)

\* no other slot's input string is a near-duplicate of that of p
Isolated(p) ==
    \A r \in SlotSet(raw) \ {p} :
        /\ FuzzRatio(RawKw(p), RawKw(r)) <= THRESHOLD
        /\ FuzzRatio(RawKw(r), RawKw(p)) <= THRESHOLD

\* C17: frame of the merge pass. The pass keeps the links, the number of slots
\* of every link and the score of every slot, and a slot whose input string has
\* ratio <= 88 to the input string of every other slot keeps its string.
C17_MergeFrame ==
    Merged =>
        /\ Len(skeywords) = Len(raw)
        /\ \A n \in 1..Len(raw) :
              /\ skeywords[n].link = raw[n].link
              /\ Len(skeywords[n].kwds) = Len(raw[n].kwds)
        /\ \A p \in SlotSet(raw) :
              /\ SlotAt(skeywords, p)[2] = SlotAt(raw, p)[2]
              /\ Isolated(p) => NowKw(p) = RawKw(p)

\* the pass has rewritten a slot of a link that also has an isolated slot
C17_Witness ==
    /\ Merged
    /\ \E p, q \in SlotSet(raw) :
          /\ p[1] = q[1]
          /\ Isolated(p)
          /\ NowKw(q) # RawKw(q)

\* two slots of c hold different strings that the pass compares as duplicates
NotFixed(c) ==
    \E p, q \in SlotSet(c) :
        /\ SlotAt(c, p)[1] # SlotAt(c, q)[1]
        /\ FuzzRatio(SlotAt(c, p)[1], SlotAt(c, q)[1]) > THRESHOLD

Reverse(q) == [i \in 1..Len(q) |-> q[Len(q) + 1 - i]]

\* the same slots, every link's list in the opposite order
Reordered(c) ==
    [n \in 1..Len(c) |-> [link |-> c[n].link, kwds |-> Reverse(c[n].kwds)]]

\* the final keyword set of every link
FinalSets(c) == [n \in 1..Len(c) |-> Range(Strings(c[n].kwds))]

OrderDependent(c) == FinalSets(MergePass(Reordered(c))) # FinalSets(MergePass(c))

\* a corpus on which one pass stops short of a fixed point
StuckCorpus ==
    << [link |-> "u1",
        kwds |-> WithStrength(<< <<"a", "a", "a", "a", "b", "b", "a", "a", "a", "b", "a">> >>)],
       [link |-> "u2",
        kwds |-> WithStrength(<< <<"a", "a", "a", "b", "a", "a", "a", "b">>,
                                 <<"a", "a", "a", "b", "b", "a", "a", "a", "b", "a">> >>)] >>

\* C18: the merge is a single pass, not a fixed point, and order-dependent. The
\* result is one application of the pass; whenever it leaves two slots with
\* different strings of ratio > 88 a second pass rewrites a slot; and on
\* StuckCorpus it does leave two such slots, and the same slots listed in
\* another order end with different final keyword sets.
C18_SinglePass ==
    Merged =>
        /\ skeywords = MergePass(raw)
        /\ NotFixed(skeywords) => MergePass(skeywords) # skeywords
        /\ raw = StuckCorpus => (NotFixed(skeywords) /\ OrderDependent(raw))

\* the pass has ended short of a fixed point, on slots whose order matters
C18_Witness ==
    /\ Merged
    /\ NotFixed(skeywords)
    /\ OrderDependent(raw)

(* -------------------------------- C16 --------------------------------- *)

Hung == {t \in Labels : wpc[t] = "hung"}

\* C16: liveness of process_links. A run in which no task hangs returns. A task
\* that never finishes keeps process_links in its poll loop for ever, and when
\* the pool has another worker every other task still runs to its end.
C16_Liveness ==
    /\ [](dpc = "submit" => <>(dpc = "returned" \/ Hung # {}))
    /\ [](Hung # {} => dpc \in {"submit"} \cup PollPcs)
    /\ [](Hung # {} => <>(dpc = "poll"))
    /\ []((Hung # {} /\ poolSize > 1) =>
             <>(\A u \in Labels \ Hung : wpc[u] = "done"))

\* the loop polls again with only the hung task left, the other task having
\* ended normally
C16_Witness ==
    /\ Hung # {}
    /\ dpc = "poll"
    /\ results = <<CHOOSE t \in Labels : t \in Hung>>
    /\ \E u \in Labels \ Hung : res[u] = "ok"
====
